---- MODULE Spec2Model ----
(***************************************************************************)
(* files-cleanup (gabrielmoris/mcp-learn): the find-useless-files tool.    *)
(*                                                                         *)
(* src/main.ts holds two definitions of the tool.  The first (lines 1-185) *)
(* keys the duplicate map by file size and limits with a truthiness test;  *)
(* the second (lines 187-432) keys it by MD5 digest, filters by extension, *)
(* skips node_modules/.git and limits with Math.min.  The variable ver     *)
(* says which definition a behaviour runs (1 or 2).                        *)
(*                                                                         *)
(* A scan is a handler call: it clears the module-level map fileHashes,    *)
(* walks the tree with the recursive async function findUselessFiles and   *)
(* derives the duplicate list with findDuplicateFiles.  The walker's call  *)
(* stack is modelled as a sequence of frames; filesProcessed is a number   *)
(* parameter, so every frame holds its own copy.                           *)
(***************************************************************************)
EXTENDS Integers, Sequences, FiniteSets, TLC

VARIABLES
    ver,         \* which definition of the tool in src/main.ts runs: 1 or 2
    now,         \* Date.now(), in milliseconds
    fileHashes,  \* the module-level Map, as its entries in insertion order
    scans,       \* per request slot: the handler's locals and the walker's stack
    cpu,         \* the slot whose continuation holds the JavaScript thread, or 0
    started,     \* number of requests received so far
    obs          \* per slot: observations of the run (history, not program state)

vars == <<ver, now, fileHashes, scans, cpu, started, obs>>

(***************************************************************************)
(* Program constants.                                                      *)
(***************************************************************************)
MAX_FILES_TO_PROCESS == 1000
MAX_EXECUTION_TIME_MS == 5000
MAX_DEPTH == 10
MAX_ITEMS_PER_DIR == 100
\* first definition: maxFiles < 5000 ? maxFiles : MAX_FILES_TO_PROCESS
FIRST_MAX_FILES_TEST == 5000

COMMON_FILE_EXTENSIONS ==
    { "txt", "js", "html", "css", "json", "xml", "md", "pdf", "jpg", "jpeg",
      "png", "gif", "bmp", "svg", "mp3", "wav", "ogg", "flac", "mp4", "avi",
      "mkv", "doc", "docx", "xls", "xlsx", "ppt", "pptx" }

(***************************************************************************)
(* Bounds of the model.                                                    *)
(***************************************************************************)
TickMs == 5001      \* the clock advances in steps of this many milliseconds
MaxTicks == 1       \* and at most this many times
BigN == 101         \* entries of the large directory
ChainDepth == 11    \* nesting of the deep tree below its root

\* The k-th request received runs in slot k.
Slots == {1, 2}
Versions == {1, 2}

Min(a, b) == IF a <= b THEN a ELSE b

(***************************************************************************)
(* The file system the scans read.  It does not change: the tool only      *)
(* reads.  A name is a stem, a number and a raw extension; a path is the   *)
(* sequence of names from the root directory down (path.join appends).     *)
(***************************************************************************)
Name(stem, n, ext) == [stem |-> stem, n |-> n, ext |-> ext]

Node(kind, name, content, items) ==
    [kind |-> kind, name |-> name, content |-> content, items |-> items,
     exists |-> TRUE, listErr |-> FALSE, statErr |-> FALSE, readErr |-> FALSE]

File(stem, ext, content) == Node("file", Name(stem, 0, ext), content, <<>>)
Dir(stem, items) == Node("dir", Name(stem, 0, ""), <<>>, items)

\* a.txt and b.TXT and deep/c.txt hold the same bytes; p.txt has their size
\* but other bytes; q.bin and r.bin hold the same bytes outside the allow-list;
\* e.md and g.md are empty.
RootWork ==
    Dir("work", <<
        Dir("sub", << File("a", "txt", <<1, 2>>),
                      File("b", "TXT", <<1, 2>>),
                      Dir("deep", << File("c", "txt", <<1, 2>>) >>) >>),
        File("p", "txt", <<2, 1>>),
        File("q", "bin", <<7>>),
        File("r", "bin", <<7>>),
        File("e", "md", <<>>),
        File("g", "md", <<>>) >>)

\* A directory of BigN entries: the first is an empty file; the last two
\* within the cap and the last of the listing are text files with the same
\* bytes.
BigItem(i) ==
    IF i \in {MAX_ITEMS_PER_DIR - 1, MAX_ITEMS_PER_DIR, BigN}
    THEN Node("file", Name("f", i, "txt"), <<9>>, <<>>)
    ELSE IF i = 1 THEN Node("file", Name("f", i, "bin"), <<>>, <<>>)
    ELSE Node("file", Name("f", i, "bin"), <<3>>, <<>>)

RootBig == Dir("big", [i \in 1..BigN |-> BigItem(i)])

\* A chain of directories ChainDepth deep with one file at the bottom.
RECURSIVE Chain(_)
Chain(k) ==
    IF k = 0
    THEN Node("dir", Name("c", 0, ""), <<>>, << File("leaf", "txt", <<5>>) >>)
    ELSE Node("dir", Name("c", k, ""), <<>>, << Chain(k - 1) >>)

RootChain == Chain(ChainDepth)

\* A directory that does not exist.
RootGone == [Dir("gone", <<>>) EXCEPT !.exists = FALSE]

\* Failures and exclusions: a directory whose listing fails, an entry whose
\* lstat fails, a file whose read fails, a directory that vanished after the
\* parent was listed, a symbolic link, an empty directory, and node_modules.
RootOdd ==
    Dir("odd", <<
        [Dir("locked", << File("h", "txt", <<4>>) >>) EXCEPT !.listErr = TRUE],
        [File("s", "txt", <<4>>) EXCEPT !.statErr = TRUE],
        [File("u", "txt", <<4>>) EXCEPT !.readErr = TRUE],
        [Dir("lost", <<>>) EXCEPT !.exists = FALSE],
        Node("link", Name("l", 0, "txt"), <<4>>, <<>>),
        Dir("void", <<>>),
        Dir("node_modules", << File("m", "txt", <<4>>), File("n", "txt", <<4>>) >>),
        File("v", "txt", <<4>>),
        File("w", "txt", <<4>>) >>)

\* A directory named .github that does not exist.
RootGoneGit == [Dir(".github", <<>>) EXCEPT !.exists = FALSE]

\* Nothing empty, nothing failing, no two allow-listed files with the same
\* bytes: x.txt and d/y.txt have the same size, d/z.bin and d/w.bin the same
\* bytes.
RootClean ==
    Dir("clean", <<
        File("x", "txt", <<1, 3>>),
        Dir("d", << File("y", "txt", <<3, 1>>),
                    File("z", "bin", <<8>>),
                    File("w", "bin", <<8>>) >>) >>)

FsRoots == << RootWork, RootBig, RootChain, RootGone, RootOdd, RootGoneGit, RootClean >>

\* An index path: the root's number, then the position of each entry in the
\* listing of its parent.
RECURSIVE NodeBelow(_, _)
NodeBelow(node, ip) ==
    IF ip = <<>> THEN node ELSE NodeBelow(node.items[Head(ip)], Tail(ip))

\* every index path of the file system
RECURSIVE IpsBelow(_, _)
IpsBelow(node, ip) ==
    {ip} \cup UNION { IpsBelow(node.items[j], Append(ip, j)) : j \in 1..Len(node.items) }

AllIps == UNION { IpsBelow(FsRoots[r], << r >>) : r \in DOMAIN FsRoots }

NodeTable == [ip \in AllIps |-> NodeBelow(FsRoots[Head(ip)], Tail(ip))]
NodeAt(ip) == NodeTable[ip]

RECURSIVE PathBelow(_, _)
PathBelow(node, ip) ==
    IF ip = <<>> THEN << node.name >>
    ELSE << node.name >> \o PathBelow(node.items[Head(ip)], Tail(ip))

PathTable == [ip \in AllIps |-> PathBelow(FsRoots[Head(ip)], Tail(ip))]
PathOf(ip) == PathTable[ip]

(***************************************************************************)
(* Strings.  A string is a sequence; "" is the empty sequence and is       *)
(* falsy.  String(n) and the digest are one-element strings.               *)
(***************************************************************************)
EmptyString == <<>>
Truthy(str) == str # EmptyString
Str(n) == << n >>

\* toLowerCase on the extensions that occur in the trees
ToLowerCase(e) ==
    CASE e = "TXT" -> "txt"
      [] e = "MD" -> "md"
      [] OTHER -> e

\* path.extname(p).slice(1).toLowerCase()
ExtOf(path) == ToLowerCase(path[Len(path)].ext)

\* dirPath.includes("node_modules") || dirPath.includes(".git")
\* (the names of the trees that have a marker as a substring)
Substrings(stem) == IF stem = ".github" THEN {".github", ".git"} ELSE {stem}
Includes(path, marker) == \E i \in 1..Len(path) : marker \in Substrings(path[i].stem)

Excluded(path) == Includes(path, "node_modules") \/ Includes(path, ".git")

\* crypto.createHash("md5") over the bytes read: a digest of the content,
\* never the empty string; distinct on the contents of the trees.
RECURSIVE Md5Fold(_, _)
Md5Fold(h, bytes) ==
    IF bytes = <<>> THEN h
    ELSE Md5Fold((h * 31 + Head(bytes) + 1) % 65536, Tail(bytes))

Md5(bytes) == << Md5Fold(7, bytes) >>

(***************************************************************************)
(* The Map fileHashes: entries [key, paths] in insertion order.            *)
(***************************************************************************)
MapHas(m, k) == \E i \in 1..Len(m) : m[i].key = k

MapIndex(m, k) == CHOOSE i \in 1..Len(m) : m[i].key = k

\* set without else: the first path of a key is pushed as well
MapInsert_SetThenPush(m, k, p) ==
    IF ~MapHas(m, k)
    THEN Append(m, [key |-> k, paths |-> << p, p >>])
    ELSE [m EXCEPT ![MapIndex(m, k)].paths = Append(@, p)]

\* if (!fileHashes.has(k)) fileHashes.set(k, [p]); else fileHashes.get(k)?.push(p)
MapInsert(m, k, p) ==
    IF ~MapHas(m, k)
    THEN Append(m, [key |-> k, paths |-> << p >>])
    ELSE [m EXCEPT ![MapIndex(m, k)].paths = Append(@, p)]

\* a handler that does not clear the map
MapClear_Kept(m) == m

\* fileHashes.clear()
MapClear(m) == <<>>

(***************************************************************************)
(* findDuplicateFiles: for each entry with more than one path, one         *)
(* relation per path after the first; the second definition keeps a        *)
(* relation only if both extensions are in includeExtensions.              *)
(***************************************************************************)
Relation(dupe, original) == [dupe |-> dupe, original |-> original]

\* the filter without toLowerCase
ExtensionsIncluded_Raw(v, original, dupe, includeExtensions) ==
    \/ v = 1
    \/ includeExtensions = {}
    \/ (original[Len(original)].ext \in includeExtensions
          /\ dupe[Len(dupe)].ext \in includeExtensions)

ExtensionsIncluded(v, original, dupe, includeExtensions) ==
    \/ v = 1
    \/ includeExtensions = {}
    \/ (ExtOf(original) \in includeExtensions /\ ExtOf(dupe) \in includeExtensions)

PushDupes(v, duplicates, original, dupes, includeExtensions) ==
    LET pushed == SelectSeq(dupes, LAMBDA dupe :
                      ExtensionsIncluded(v, original, dupe, includeExtensions))
    IN  duplicates \o [i \in 1..Len(pushed) |-> Relation(pushed[i], original)]

RECURSIVE ForEachEntry(_, _, _, _)
ForEachEntry(v, duplicates, m, includeExtensions) ==
    IF m = <<>> THEN duplicates
    ELSE LET filePaths == Head(m).paths
         IN ForEachEntry(v,
                IF Len(filePaths) > 1
                THEN PushDupes(v, duplicates, filePaths[1], Tail(filePaths),
                               includeExtensions)
                ELSE duplicates,
                Tail(m), includeExtensions)

findDuplicateFiles(v, m) == ForEachEntry(v, <<>>, m, COMMON_FILE_EXTENSIONS)

(***************************************************************************)
(* The limits a scan uses.                                                 *)
(***************************************************************************)
\* first:  maxDepth && maxDepth < 10 ? maxDepth : MAX_DEPTH
\* second: Math.min(maxDepth, MAX_DEPTH)
actualMaxDepth(v, maxDepth) ==
    IF v = 1
    THEN IF maxDepth # 0 /\ maxDepth < 10 THEN maxDepth ELSE MAX_DEPTH
    ELSE Min(maxDepth, MAX_DEPTH)

\* first:  maxFiles && maxFiles < 5000 ? maxFiles : MAX_FILES_TO_PROCESS
\* second: Math.min(maxFiles, MAX_FILES_TO_PROCESS)
actualMaxFiles(v, maxFiles) ==
    IF v = 1
    THEN IF maxFiles # 0 /\ maxFiles < FIRST_MAX_FILES_TEST
         THEN maxFiles ELSE MAX_FILES_TO_PROCESS
    ELSE Min(maxFiles, MAX_FILES_TO_PROCESS)

(***************************************************************************)
(* Findings.  A finding is "<path> (<reason>)"; an error finding carries   *)
(* the message, a limited-scan finding the two numbers.                    *)
(***************************************************************************)
Finding(path, reason) == [path |-> path, reason |-> reason, msg |-> "", k |-> 0, n |-> 0]
ErrorFinding(path, msg) == [Finding(path, "error") EXCEPT !.msg = msg]
LimitedFinding(path, k, n) == [Finding(path, "limited scan") EXCEPT !.k = k, !.n = n]

TimeReasons == {"execution time limit reached",
                "execution time limit reached during processing"}
FilesReasons == {"max files limit reached",
                 "max files limit reached during processing"}
LimitReasons == TimeReasons \cup FilesReasons

(***************************************************************************)
(* The walker findUselessFiles.  A frame is one call: ip locates dirPath,  *)
(* depth is currentDepth, fp the call's own filesProcessed, idx the        *)
(* position of the loop in itemsToProcess, out the call's uselessFiles.    *)
(* pc: "enter" before the checks at the top, "loop" before an entry,       *)
(* "await" while the recursive call runs, "hashing" while the read stream  *)
(* of calculateFileHash is open, "ret" returned, "throw" threw.            *)
(***************************************************************************)
NewFrame(ip, depth, fp) ==
    [ip |-> ip, depth |-> depth, fp |-> fp, idx |-> 0, out |-> <<>>, pc |-> "enter"]

\* a loop over the whole listing
ItemsToProcess_All(items) == items

\* items.slice(0, MAX_ITEMS_PER_DIR)
ItemsToProcess(items) == SubSeq(items, 1, Min(Len(items), MAX_ITEMS_PER_DIR))

Elapsed(sc, t) == t - sc.startTime

\* Date.now() - startTime > MAX_EXECUTION_TIME_MS
TimeLimitReached(sc, t) == Elapsed(sc, t) > MAX_EXECUTION_TIME_MS

\* filesProcessed >= maxFiles, on the call's own filesProcessed
FilesLimitReached(sc, f) == f.fp >= sc.maxFilesUsed

\* a walker without the depth check
DepthLimitReached_Never(sc, f) == FALSE

\* currentDepth > maxDepth
DepthLimitReached(sc, f) == f.depth > sc.maxDepthUsed

Returned(f, findings) == [f EXCEPT !.out = findings, !.pc = "ret"]

\* the checks without existsSync
EnterOutcome_ExistsUnchecked(v, sc, f, t) ==
    LET node == NodeAt(f.ip)
    IN  IF v = 2 /\ Excluded(PathOf(f.ip)) THEN "excluded"
        ELSE IF TimeLimitReached(sc, t) THEN "time"
        ELSE IF FilesLimitReached(sc, f) THEN "files"
        ELSE IF DepthLimitReached(sc, f) THEN "depth"
        ELSE IF node.listErr THEN "listing failed"
        ELSE IF Len(node.items) = 0 THEN "empty"
        ELSE "loop"

\* the exclusion test after the depth check
EnterOutcome_ExclusionAfterDepth(v, sc, f, t) ==
    LET node == NodeAt(f.ip)
    IN  IF TimeLimitReached(sc, t) THEN "time"
        ELSE IF FilesLimitReached(sc, f) THEN "files"
        ELSE IF DepthLimitReached(sc, f) THEN "depth"
        ELSE IF v = 2 /\ Excluded(PathOf(f.ip)) THEN "excluded"
        ELSE IF ~node.exists THEN "missing"
        ELSE IF node.listErr THEN "listing failed"
        ELSE IF Len(node.items) = 0 THEN "empty"
        ELSE "loop"

\* How far the top of findUselessFiles gets, as the name of the check that ends
\* it ("loop" when the directory loop starts).
EnterOutcome(v, sc, f, t) ==
    LET node == NodeAt(f.ip)
    IN  IF v = 2 /\ Excluded(PathOf(f.ip)) THEN "excluded"
        ELSE IF TimeLimitReached(sc, t) THEN "time"
        ELSE IF FilesLimitReached(sc, f) THEN "files"
        ELSE IF DepthLimitReached(sc, f) THEN "depth"
        ELSE IF ~node.exists THEN "missing"
        ELSE IF node.listErr THEN "listing failed"
        ELSE IF Len(node.items) = 0 THEN "empty"
        ELSE "loop"

\* a walker that lets the failure of readdirSync escape
EnterFrame_ListingThrows(v, sc, f, t) ==
    LET dirPath == PathOf(f.ip)
        items == NodeAt(f.ip).items
        outcome == EnterOutcome(v, sc, f, t)
    IN  CASE outcome = "excluded" -> Returned(f, <<>>)
          [] outcome = "time" ->
                Returned(f, << Finding(dirPath, "execution time limit reached") >>)
          [] outcome = "files" ->
                Returned(f, << Finding(dirPath, "max files limit reached") >>)
          [] outcome = "depth" ->
                Returned(f, << Finding(dirPath, "max depth reached") >>)
          [] outcome \in {"missing", "listing failed"} -> [f EXCEPT !.pc = "throw"]
          [] outcome = "empty" ->
                Returned(f, << Finding(dirPath, "empty directory") >>)
          [] OTHER ->
                [f EXCEPT !.idx = 1, !.pc = "loop",
                          !.out = IF Len(items) > MAX_ITEMS_PER_DIR
                                  THEN << LimitedFinding(dirPath, MAX_ITEMS_PER_DIR,
                                                         Len(items)) >>
                                  ELSE <<>>]

\* The frame after the top of findUselessFiles has run.
EnterFrame(v, sc, f, t) ==
    LET dirPath == PathOf(f.ip)
        items == NodeAt(f.ip).items
        outcome == EnterOutcome(v, sc, f, t)
    IN  CASE outcome = "excluded" -> Returned(f, <<>>)
          [] outcome = "time" ->
                Returned(f, << Finding(dirPath, "execution time limit reached") >>)
          [] outcome = "files" ->
                Returned(f, << Finding(dirPath, "max files limit reached") >>)
          [] outcome = "depth" ->
                Returned(f, << Finding(dirPath, "max depth reached") >>)
          [] outcome = "missing" -> [f EXCEPT !.pc = "throw"]
          [] outcome = "listing failed" ->
                Returned(f, << ErrorFinding(dirPath, "readdir failed") >>)
          [] outcome = "empty" ->
                Returned(f, << Finding(dirPath, "empty directory") >>)
          [] OTHER ->
                [f EXCEPT !.idx = 1, !.pc = "loop",
                          !.out = IF Len(items) > MAX_ITEMS_PER_DIR
                                  THEN << LimitedFinding(dirPath, MAX_ITEMS_PER_DIR,
                                                         Len(items)) >>
                                  ELSE <<>>]

\* The next iteration of the for loop, or return uselessFiles after the last.
NextItem(f) ==
    IF f.idx >= Len(ItemsToProcess(NodeAt(f.ip).items))
    THEN [f EXCEPT !.pc = "ret"]
    ELSE [f EXCEPT !.idx = @ + 1, !.pc = "loop"]

\* The two checks at the end of the try block, then the next iteration.
AfterEntry(sc, f, t) ==
    LET dirPath == PathOf(f.ip)
    IN  IF TimeLimitReached(sc, t)
        THEN Returned(f, Append(f.out,
                 Finding(dirPath, "execution time limit reached during processing")))
        ELSE IF FilesLimitReached(sc, f)
        THEN Returned(f, Append(f.out,
                 Finding(dirPath, "max files limit reached during processing")))
        ELSE NextItem(f)

\* a catch that throws the error again
CatchEntry_Rethrow(f, itemPath, msg) == [f EXCEPT !.pc = "throw"]

\* a catch that records nothing
CatchEntry_Silent(f, itemPath, msg) == NextItem(f)

\* a catch that puts its finding in front (unshift)
CatchEntry_Unshift(f, itemPath, msg) ==
    NextItem([f EXCEPT !.out = << ErrorFinding(itemPath, msg) >> \o @])

\* catch (error): one finding for the entry, then the next iteration
CatchEntry(f, itemPath, msg) ==
    NextItem([f EXCEPT !.out = Append(@, ErrorFinding(itemPath, msg))])

Top(sc) == sc.stack[Len(sc.stack)]
SetTop(stack, f) == [stack EXCEPT ![Len(stack)] = f]
ItemIp(f) == Append(f.ip, f.idx)

\* a key that is the size in both definitions
HashKey_BySize(v, node) == Str(Len(node.content))

\* The key under which a file goes into fileHashes: String(fileSize) in the
\* first definition, the digest in the second.
HashKey(v, node) == IF v = 1 THEN Str(Len(node.content)) ELSE Md5(node.content)

\* Whether the else branch of the loop opens a read stream for the entry
\* (second definition, allow-listed extension, lstat says regular file).
OpensStream(v, ip) ==
    /\ v = 2
    /\ ExtOf(PathOf(ip)) \in COMMON_FILE_EXTENSIONS
    /\ NodeAt(ip).kind = "file"

HasLimitFinding(findings) ==
    \E i \in 1..Len(findings) : findings[i].reason \in LimitReasons

(***************************************************************************)
(* Requests, responses and the state of a handler call.                    *)
(***************************************************************************)
RootIxs == 1..Len(FsRoots)
DepthReqs == {0, 11}
FileReqs == {2, 1001}

Block(kind, count, findings, relations) ==
    [kind |-> kind, count |-> count, findings |-> findings, relations |-> relations]

\* a handler without the early return
Report_AlwaysFour(uselessFiles, duplicates) ==
    << Block("Found potentially useless files/directories in",
             Len(uselessFiles), <<>>, <<>>),
       Block("useless lines", 0, uselessFiles, <<>>),
       Block("Found duplicate files in", Len(duplicates), <<>>, <<>>),
       Block("duplicate lines", 0, <<>>, duplicates) >>

\* the content array the handler returns after a walk that did not throw
Report(uselessFiles, duplicates) ==
    IF Len(uselessFiles) = 0 /\ Len(duplicates) = 0
    THEN << Block("No useless files found in", 0, <<>>, <<>>) >>
    ELSE << Block("Found potentially useless files/directories in",
                  Len(uselessFiles), <<>>, <<>>),
            Block("useless lines", 0, uselessFiles, <<>>),
            Block("Found duplicate files in", Len(duplicates), <<>>, <<>>),
            Block("duplicate lines", 0, <<>>, duplicates) >>

\* the content array of the catch block
ErrorReport == << Block("Error scanning directory", 0, <<>>, <<>>) >>

IdleScan ==
    [status |-> "idle", dir |-> 1, maxDepth |-> 0, maxFiles |-> 0, startTime |-> 0,
     maxDepthUsed |-> 0, maxFilesUsed |-> 0, stack |-> <<>>,
     uselessFiles |-> <<>>, duplicates |-> <<>>, response |-> <<>>]

\* What is remembered of the scan that ended before this one started, when
\* this one repeats its request: the request and the response (the response
\* only if it has no time-limit finding).
NoPrev == [dir |-> 0, maxDepth |-> 0, maxFiles |-> 0, timed |-> FALSE,
           response |-> <<>>]

\* processed: entries counted and statted; reads: file-system calls made;
\* readsAtLimit: reads when the first limit finding was emitted (-1 before);
\* own: the map this scan alone would have built; listDepth: the greatest
\* depth of a directory handed to readdirSync (-1 before the first);
\* streams: read streams that have ended or failed; overlap: another scan
\* was in flight during this one; prev: see NoPrev.
NoObs == [processed |-> 0, reads |-> 0, readsAtLimit |-> -1, own |-> <<>>,
          listDepth |-> -1, streams |-> 0, overlap |-> FALSE, prev |-> NoPrev]

Running(s) == scans[s].status = "running"
Ended(s) == scans[s].status \in {"done", "failed"}

HasTimeFinding(findings) ==
    \E i \in 1..Len(findings) : findings[i].reason \in TimeReasons

PrevOf(sc) ==
    [dir |-> sc.dir, maxDepth |-> sc.maxDepth, maxFiles |-> sc.maxFiles,
     timed |-> HasTimeFinding(sc.uselessFiles),
     response |-> IF HasTimeFinding(sc.uselessFiles) THEN <<>> ELSE sc.response]

LimitEmitted(stack) ==
    \E i \in 1..Len(stack) : HasLimitFinding(stack[i].out)

\* obs after a step that made `reads` file-system calls and left `stack`
Observe(o, reads, stack) ==
    [o EXCEPT !.reads = @ + reads,
              !.readsAtLimit = IF @ = -1 /\ LimitEmitted(stack)
                               THEN o.reads + reads ELSE @]

InitWith(versions) ==
    /\ ver \in versions
    /\ now = 0
    /\ fileHashes = <<>>
    /\ scans = [s \in Slots |-> IdleScan]
    /\ cpu = 0
    /\ started = 0
    /\ obs = [s \in Slots |-> NoObs]

Init == InitWith(Versions)

\* The handler up to the call of findUselessFiles.  A request arrives when
\* the thread is free: no scan is in flight, or every scan in flight waits
\* for a read stream (here: for its first one).  The locals of a handler
\* call that has returned are gone; what the later claims need of it is kept
\* in prev.
Start(s, r, maxDepth, maxFiles) ==
    /\ s = started + 1
    /\ cpu = 0
    /\ \A t \in Slots : Running(t) => obs[t].streams = 0
    /\ started' = s
    /\ cpu' = s
    /\ fileHashes' = MapClear(fileHashes)
    /\ scans' = [t \in Slots |->
          IF t = s
          THEN [IdleScan EXCEPT !.status = "running", !.dir = r,
                                !.maxDepth = maxDepth, !.maxFiles = maxFiles,
                                !.startTime = now,
                                !.maxDepthUsed = actualMaxDepth(ver, maxDepth),
                                !.maxFilesUsed = actualMaxFiles(ver, maxFiles),
                                !.stack = << NewFrame(<< r >>, 0, 0) >>]
          ELSE IF Ended(t) THEN [IdleScan EXCEPT !.status = "gone"]
          ELSE scans[t]]
    /\ obs' = [t \in Slots |->
          IF t = s
          THEN [NoObs EXCEPT
                  !.overlap = \E u \in Slots : Running(u),
                  !.prev = IF /\ s > 1 /\ Ended(s - 1)
                              /\ scans[s - 1].dir = r
                              /\ scans[s - 1].maxDepth = maxDepth
                              /\ scans[s - 1].maxFiles = maxFiles
                           THEN PrevOf(scans[s - 1])
                           ELSE NoPrev]
          ELSE IF Ended(t) THEN NoObs
          ELSE [obs[t] EXCEPT !.overlap = TRUE]]
    /\ UNCHANGED <<ver, now>>

\* The top of findUselessFiles: the checks, existsSync, readdirSync.
Enter(s) ==
    /\ cpu = s
    /\ Running(s)
    /\ Top(scans[s]).pc = "enter"
    /\ LET sc == scans[s]
           f == Top(sc)
           outcome == EnterOutcome(ver, sc, f, now)
           listed == outcome \in {"listing failed", "empty", "loop"}
           reads == IF listed THEN 2 ELSE IF outcome = "missing" THEN 1 ELSE 0
           stack2 == SetTop(sc.stack, EnterFrame(ver, sc, f, now))
       IN  /\ scans' = [scans EXCEPT ![s].stack = stack2]
           /\ obs' = [obs EXCEPT ![s] =
                 [Observe(@, reads, stack2) EXCEPT
                     !.listDepth = IF listed /\ f.depth > @ THEN f.depth ELSE @]]
    /\ UNCHANGED <<ver, now, fileHashes, cpu, started>>

\* One iteration of the for loop up to its first await: filesProcessed++,
\* lstatSync, then the recursive call, the read stream, or the end of the try.
Entry(s) ==
    /\ cpu = s
    /\ Running(s)
    /\ Top(scans[s]).pc = "loop"
    /\ LET sc == scans[s]
           f == [Top(sc) EXCEPT !.fp = @ + 1]
           ip == ItemIp(f)
           item == NodeAt(ip)
           itemPath == PathOf(ip)
           g == IF Len(item.content) = 0
                THEN [f EXCEPT !.out = Append(@, Finding(itemPath, "empty file"))]
                ELSE f
           hashed == ver = 2 /\ ExtOf(itemPath) \in COMMON_FILE_EXTENSIONS
                     /\ item.kind # "dir" /\ ~item.statErr
           inserts == ver = 1 /\ item.kind # "dir" /\ ~item.statErr
           suspends == OpensStream(ver, ip) /\ ~item.statErr
           stack2 ==
               IF item.statErr THEN SetTop(sc.stack, CatchEntry(f, itemPath, "lstat failed"))
               ELSE IF item.kind = "dir"
               THEN Append(SetTop(sc.stack, [f EXCEPT !.pc = "await"]),
                           NewFrame(ip, f.depth + 1, f.fp))
               ELSE IF suspends THEN SetTop(sc.stack, [g EXCEPT !.pc = "hashing"])
               ELSE SetTop(sc.stack, AfterEntry(sc, g, now))
       IN  /\ scans' = [scans EXCEPT ![s].stack = stack2]
           /\ obs' = [obs EXCEPT ![s] =
                 [Observe(@, IF hashed THEN 2 ELSE 1, stack2) EXCEPT
                     !.processed = @ + 1,
                     !.own = IF inserts
                             THEN MapInsert(@, HashKey(ver, item), itemPath) ELSE @]]
           /\ fileHashes' = IF inserts
                            THEN MapInsert(fileHashes, HashKey(ver, item), itemPath)
                            ELSE fileHashes
           /\ cpu' = IF suspends THEN 0 ELSE s
    /\ UNCHANGED <<ver, now, started>>

\* The read stream of calculateFileHash ends or fails; the loop body resumes.
HashDone(s) ==
    /\ cpu = 0
    /\ Running(s)
    /\ Top(scans[s]).pc = "hashing"
    /\ LET sc == scans[s]
           f == Top(sc)
           ip == ItemIp(f)
           item == NodeAt(ip)
           itemPath == PathOf(ip)
           fileHash == HashKey(ver, item)
           inserts == ~item.readErr /\ Truthy(fileHash)
           stack2 == IF item.readErr
                     THEN SetTop(sc.stack, CatchEntry(f, itemPath, "read failed"))
                     ELSE SetTop(sc.stack, AfterEntry(sc, f, now))
       IN  /\ scans' = [scans EXCEPT ![s].stack = stack2]
           /\ obs' = [obs EXCEPT ![s] =
                 [Observe(@, 1, stack2) EXCEPT
                     !.streams = @ + 1,
                     !.own = IF inserts THEN MapInsert(@, fileHash, itemPath) ELSE @]]
           /\ fileHashes' = IF inserts THEN MapInsert(fileHashes, fileHash, itemPath)
                            ELSE fileHashes
    /\ cpu' = s
    /\ UNCHANGED <<ver, now, started>>

\* A recursive call has settled: the caller resumes after its await.
Return(s) ==
    /\ cpu = s
    /\ Running(s)
    /\ Len(scans[s].stack) > 1
    /\ Top(scans[s]).pc \in {"ret", "throw"}
    /\ LET sc == scans[s]
           callee == Top(sc)
           rest == SubSeq(sc.stack, 1, Len(sc.stack) - 1)
           caller == rest[Len(rest)]
           stack2 ==
               IF callee.pc = "throw"
               THEN SetTop(rest, CatchEntry(caller, PathOf(callee.ip),
                                            "Directory does not exist"))
               ELSE SetTop(rest, AfterEntry(sc,
                               [caller EXCEPT !.out = @ \o callee.out], now))
       IN  /\ scans' = [scans EXCEPT ![s].stack = stack2]
           /\ obs' = [obs EXCEPT ![s] = Observe(@, 0, stack2)]
    /\ UNCHANGED <<ver, now, fileHashes, cpu, started>>

\* The outermost call has settled: the handler builds the response.
Finish(s) ==
    /\ cpu = s
    /\ Running(s)
    /\ Len(scans[s].stack) = 1
    /\ Top(scans[s]).pc \in {"ret", "throw"}
    /\ LET f == Top(scans[s])
           duplicates == findDuplicateFiles(ver, fileHashes)
       IN  scans' = [scans EXCEPT ![s] =
              IF f.pc = "throw"
              THEN [@ EXCEPT !.status = "failed", !.stack = <<>>,
                             !.response = ErrorReport]
              ELSE [@ EXCEPT !.status = "done", !.stack = <<>>,
                             !.uselessFiles = f.out, !.duplicates = duplicates,
                             !.response = Report(f.out, duplicates)]]
    /\ cpu' = 0
    /\ UNCHANGED <<ver, now, fileHashes, started, obs>>

\* Time passes while a scan is in flight.
Tick ==
    /\ \E s \in Slots : Running(s)
    /\ now < MaxTicks * TickMs
    /\ now' = now + TickMs
    /\ UNCHANGED <<ver, fileHashes, scans, cpu, started, obs>>

Next ==
    \/ \E s \in Slots, r \in RootIxs, d \in DepthReqs, m \in FileReqs : Start(s, r, d, m)
    \/ \E s \in Slots : Enter(s)
    \/ \E s \in Slots : Entry(s)
    \/ \E s \in Slots : HashDone(s)
    \/ \E s \in Slots : Return(s)
    \/ \E s \in Slots : Finish(s)
    \/ Tick

Spec == Init /\ [][Next]_vars

\* the second definition of the tool alone
InitSecond == InitWith({2})
SpecSecond == InitSecond /\ [][Next]_vars

\* The event loop runs every continuation that is ready, and a read stream
\* that was opened ends or fails: a handler call in flight takes its next
\* step.  The server of this specification gets one request.
Step(s) == Enter(s) \/ Entry(s) \/ HashDone(s) \/ Return(s) \/ Finish(s)

NextOne ==
    \/ \E r \in RootIxs, d \in DepthReqs, m \in FileReqs : Start(1, r, d, m)
    \/ \E s \in Slots : Enter(s)
    \/ \E s \in Slots : Entry(s)
    \/ \E s \in Slots : HashDone(s)
    \/ \E s \in Slots : Return(s)
    \/ \E s \in Slots : Finish(s)
    \/ Tick

SpecFair == Init /\ [][NextOne]_vars /\ \A s \in Slots : WF_vars(Step(s))

(***************************************************************************)
(* Paths back to nodes, for the properties.                                *)
(***************************************************************************)
IpOfPath(path) == CHOOSE ip \in AllIps : PathOf(ip) = path
NodeOfPath(path) == NodeAt(IpOfPath(path))

\* every finding a scan holds: in the frames of its walker, or in the handler
FindingsOf(sc) ==
    UNION { { sc.stack[i].out[j] : j \in 1..Len(sc.stack[i].out) } :
               i \in 1..Len(sc.stack) }
      \cup { sc.uselessFiles[j] : j \in 1..Len(sc.uselessFiles) }

PathsIn(m) == UNION { { m[i].paths[j] : j \in 1..Len(m[i].paths) } : i \in 1..Len(m) }

(***************************************************************************)
(* C1.  In a scan the number of entries counted and statted, over all      *)
(* recursive calls, never exceeds the scan's effective maxFiles.           *)
(* The code passes filesProcessed by value, so this fails.                 *)
(***************************************************************************)
C1_ProcessedWithinMaxFiles ==
    \A s \in Slots :
        scans[s].status \in {"running", "done", "failed"}
            => obs[s].processed <= scans[s].maxFilesUsed

(***************************************************************************)
(* C2.  The processed-file count is one counter for the whole recursion:   *)
(* the count the running call checks its budget with is the number of      *)
(* entries processed so far in the scan, also after a recursive call has   *)
(* returned.  The caller's copy misses the subtree's entries.              *)
(***************************************************************************)
C2_OneSharedCounter ==
    \A s \in Slots :
        Running(s) => Top(scans[s]).fp = obs[s].processed

(***************************************************************************)
(* C3.  Once a time-limit or file-count-limit finding has been emitted in  *)
(* a scan, the scan makes no further file-system call (no listing, no      *)
(* stat, no read).                                                         *)
(***************************************************************************)
C3_NoReadsAfterLimit ==
    \A s \in Slots :
        obs[s].readsAtLimit # -1 => obs[s].reads = obs[s].readsAtLimit

(***************************************************************************)
(* C4.  Also when scans overlap, the duplicate list of a scan is the one   *)
(* derived from the paths that scan itself inserted (its own map).         *)
(***************************************************************************)
C4_IndexNotShared ==
    \A s \in Slots :
        scans[s].status = "done"
            => scans[s].duplicates = findDuplicateFiles(ver, obs[s].own)

(***************************************************************************)
(* C5.  A scan that does not overlap another derives its duplicate list    *)
(* from its own insertions only (the map was reset when it started), and   *)
(* if the scan before it had the same arguments and neither has a          *)
(* time-limit finding, its response equals the earlier one.                *)
(***************************************************************************)
SameRequestAsPrev(s) ==
    /\ obs[s].prev.dir = scans[s].dir
    /\ obs[s].prev.maxDepth = scans[s].maxDepth
    /\ obs[s].prev.maxFiles = scans[s].maxFiles

C5_ResetEveryScan ==
    \A s \in Slots :
        (Ended(s) /\ ~obs[s].overlap) =>
            /\ scans[s].status = "done"
                 => scans[s].duplicates = findDuplicateFiles(ver, obs[s].own)
            /\ (SameRequestAsPrev(s) /\ ~obs[s].prev.timed
                  /\ ~HasTimeFinding(scans[s].uselessFiles))
                 => scans[s].response = obs[s].prev.response

\* a second scan of the same tree with the same arguments has ended and
\* reports duplicates
C5_Witness ==
    \E s \in Slots :
        /\ scans[s].status = "done" /\ ~obs[s].overlap
        /\ SameRequestAsPrev(s) /\ ~obs[s].prev.timed
        /\ ~HasTimeFinding(scans[s].uselessFiles)
        /\ Len(scans[s].duplicates) >= 2

(***************************************************************************)
(* C6.  The derived duplicate list is, group after group in the order the  *)
(* keys were first inserted, one relation "p_i (duplicate of p_1)" for     *)
(* each path after the first, in insertion order; an entry with a single   *)
(* path contributes nothing.                                               *)
(***************************************************************************)
RECURSIVE RelationsBefore(_, _)
RelationsBefore(m, k) ==
    IF k <= 1 THEN 0
    ELSE RelationsBefore(m, k - 1) + (Len(m[k - 1].paths) - 1)

C6_GroupsInInsertionOrder ==
    LET m == fileHashes
        d == findDuplicateFiles(ver, m)
    IN  /\ Len(d) = RelationsBefore(m, Len(m) + 1)
        /\ \A k \in 1..Len(m) : \A i \in 2..Len(m[k].paths) :
              d[RelationsBefore(m, k) + i - 1]
                  = [dupe |-> m[k].paths[i], original |-> m[k].paths[1]]

\* a map with a group of three paths followed by another group
C6_Witness ==
    \E k \in 1..Len(fileHashes) : \E l \in 1..Len(fileHashes) :
        /\ k < l
        /\ Len(fileHashes[k].paths) >= 3
        /\ Len(fileHashes[l].paths) >= 2

(***************************************************************************)
(* C7.  A scan reports "q (duplicate of p)" only for regular files p and q *)
(* with the same bytes and allow-listed extensions.  (The first definition *)
(* keys the map by size.)                                                  *)
(***************************************************************************)
C7_DuplicatesHaveSameBytes ==
    \A s \in Slots :
        (scans[s].status = "done" /\ ~obs[s].overlap) =>
            \A i \in 1..Len(scans[s].duplicates) :
                LET p == NodeOfPath(scans[s].duplicates[i].original)
                    q == NodeOfPath(scans[s].duplicates[i].dupe)
                IN  /\ p.kind = "file" /\ q.kind = "file"
                    /\ p.content = q.content
                    /\ ExtOf(scans[s].duplicates[i].original) \in COMMON_FILE_EXTENSIONS
                    /\ ExtOf(scans[s].duplicates[i].dupe) \in COMMON_FILE_EXTENSIONS

(***************************************************************************)
(* C8.  No directory deeper than the effective maxDepth is listed and no   *)
(* entry of one is reported or indexed; such a directory, reached within   *)
(* the time and file budgets and not excluded, yields exactly the finding  *)
(* "max depth reached"; with maxDepth = 0 no subdirectory of the root is   *)
(* listed.  (The first definition reads maxDepth = 0 as unset.)            *)
(***************************************************************************)
TooDeepFrameOk(sc, f) ==
    f.depth > sc.maxDepthUsed =>
        /\ f.pc \in {"enter", "ret"}
        /\ (f.pc = "ret" /\ ~(ver = 2 /\ Excluded(PathOf(f.ip)))
              /\ ~TimeLimitReached(sc, now) /\ ~FilesLimitReached(sc, f))
             => f.out = << Finding(PathOf(f.ip), "max depth reached") >>

C8_DepthRespected ==
    \A s \in Slots :
        scans[s].status \in {"running", "done", "failed"} =>
            /\ obs[s].listDepth <= scans[s].maxDepthUsed
            /\ \A i \in 1..Len(scans[s].stack) : TooDeepFrameOk(scans[s], scans[s].stack[i])
            /\ \A x \in FindingsOf(scans[s]) : Len(x.path) <= scans[s].maxDepthUsed + 2
            /\ \A p \in PathsIn(obs[s].own) : Len(p) <= scans[s].maxDepthUsed + 2

C8_DepthZero ==
    /\ C8_DepthRespected
    /\ \A s \in Slots :
          (scans[s].status \in {"running", "done", "failed"} /\ scans[s].maxDepth = 0)
              => obs[s].listDepth <= 0

(***************************************************************************)
(* C9.  A directory visit processes at most the first 100 entries of the   *)
(* listing; a listing of N > 100 entries yields exactly one finding        *)
(* "limited scan: 100/N items", the first of the visit; a shorter listing  *)
(* yields none; no entry beyond the first 100 is reported or indexed.      *)
(***************************************************************************)
LimitedCount(findings, path) ==
    Cardinality({ j \in 1..Len(findings) :
                    findings[j].reason = "limited scan" /\ findings[j].path = path })

PastCapPaths ==
    UNION { { PathOf(Append(ip, j)) :
                j \in (MAX_ITEMS_PER_DIR + 1)..Len(NodeAt(ip).items) } : ip \in AllIps }

VisitCapped(f) ==
    LET n == Len(NodeAt(f.ip).items)
        dirPath == PathOf(f.ip)
    IN  /\ f.idx <= MAX_ITEMS_PER_DIR
        /\ f.idx = 0 => LimitedCount(f.out, dirPath) = 0
        /\ (f.idx >= 1 /\ n <= MAX_ITEMS_PER_DIR) => LimitedCount(f.out, dirPath) = 0
        /\ (f.idx >= 1 /\ n > MAX_ITEMS_PER_DIR) =>
              /\ LimitedCount(f.out, dirPath) = 1
              /\ f.out[1] = LimitedFinding(dirPath, MAX_ITEMS_PER_DIR, n)

C10_LimitsClamped ==
    \A s \in Slots :
        scans[s].status \in {"running", "done", "failed"} =>
            /\ scans[s].maxDepthUsed
                 = (IF scans[s].maxDepth <= 10 THEN scans[s].maxDepth ELSE 10)
            /\ scans[s].maxFilesUsed
                 = (IF scans[s].maxFiles <= 1000 THEN scans[s].maxFiles ELSE 1000)

(***************************************************************************)
(* C11.  A scan whose root directory does not exist answers with the one   *)
(* block "Error scanning directory: ..." and holds no finding and no       *)
(* duplicate relation.  As stated this fails for a root whose path has an  *)
(* exclusion marker: the exclusion test comes first and the scan answers   *)
(* "No useless files found".  It holds for a root that is not excluded and *)
(* whose existence check is reached within the time limit.                 *)
(***************************************************************************)
RootMissing(sc) == ~NodeAt(<< sc.dir >>).exists
RootExcluded(sc) == ver = 2 /\ Excluded(PathOf(<< sc.dir >>))

AnswersWithError(sc) ==
    /\ sc.status = "failed"
    /\ sc.response = ErrorReport
    /\ sc.uselessFiles = <<>>
    /\ sc.duplicates = <<>>

C11_MissingRootIsError ==
    \A s \in Slots :
        (Ended(s) /\ RootMissing(scans[s])) => AnswersWithError(scans[s])

C11_MissingRootNotExcluded ==
    \A s \in Slots :
        (Ended(s) /\ RootMissing(scans[s]) /\ ~RootExcluded(scans[s])
           /\ ~HasTimeFinding(scans[s].uselessFiles))
            => AnswersWithError(scans[s])

\* the existence check of a missing root has run and the handler has answered
C11_Witness ==
    \E s \in Slots :
        /\ Ended(s) /\ RootMissing(scans[s]) /\ ~RootExcluded(scans[s])
        /\ obs[s].reads = 1
        /\ scans[s].response = ErrorReport

(***************************************************************************)
(* C12.  As stated: a directory that does not exist when its visit starts  *)
(* ends the whole scan with the error response at every depth, so "does    *)
(* not exist" is never a per-entry finding.  In the code the throw of a    *)
(* recursive call is caught by the catch of the caller's loop.  What       *)
(* holds: only a missing root ends the scan with the error response; a     *)
(* missing subdirectory whose visit reaches the existence check becomes    *)
(* exactly one finding "<path> (error: Directory does not exist: <path>)"  *)
(* of the caller, which goes on with its next entry.                       *)
(***************************************************************************)
C12_ExistenceTerminalAtEveryDepth ==
    \A s \in Slots : \A x \in FindingsOf(scans[s]) :
        ~(x.reason = "error" /\ x.msg = "Directory does not exist")

\* the findings of a frame about one path
FindingsAbout(f, path) == SelectSeq(f.out, LAMBDA x : x.path = path)

\* entry j of the frame's directory is a subdirectory that is gone and whose
\* visit gets as far as existsSync
MissingSubdir(sc, f, j) ==
    LET ip == Append(f.ip, j)
    IN  /\ NodeAt(ip).kind = "dir" /\ ~NodeAt(ip).exists /\ ~NodeAt(ip).statErr
        /\ ~(ver = 2 /\ Excluded(PathOf(ip)))
        /\ f.depth + 1 <= sc.maxDepthUsed

C12_OnlyMissingRootTerminal ==
    \A s \in Slots :
        /\ scans[s].status = "failed"
             => (RootMissing(scans[s]) /\ scans[s].response = ErrorReport)
        /\ \A i \in 1..Len(scans[s].stack) :
              LET f == scans[s].stack[i]
              IN  \A j \in 1..(f.idx - 1) :
                     MissingSubdir(scans[s], f, j) =>
                        FindingsAbout(f, PathOf(Append(f.ip, j)))
                          = << ErrorFinding(PathOf(Append(f.ip, j)),
                                            "Directory does not exist") >>

\* the loop has gone past a subdirectory that was gone and is at a later entry
C12_Witness ==
    \E s \in Slots : \E i \in 1..Len(scans[s].stack) :
        LET f == scans[s].stack[i]
        IN  /\ f.pc = "loop"
            /\ \E j \in 1..(f.idx - 1) :
                  /\ MissingSubdir(scans[s], f, j)
                  /\ Len(FindingsAbout(f, PathOf(Append(f.ip, j)))) = 1

(***************************************************************************)
(* C13.  A directory whose listing fails yields exactly one finding        *)
(* "<path> (error: <message>)"; nothing below it is reported or indexed;   *)
(* the scan does not fail: the caller keeps the finding and goes on with   *)
(* the entries after that directory.                                       *)
(***************************************************************************)
\* every path strictly below a directory whose listing fails
BelowListingFailure ==
    UNION { { PathOf(q) : q \in IpsBelow(NodeAt(ip), ip) \ {ip} } :
               ip \in { p \in AllIps : NodeAt(p).listErr } }

\* the visit of a directory whose listing fails
ListingFailureVisit(sc, f) ==
    NodeAt(f.ip).listErr =>
        /\ f.pc \in {"enter", "ret"}
        /\ Len(f.out) <= 1
        /\ (f.pc = "ret" /\ NodeAt(f.ip).exists
              /\ ~(ver = 2 /\ Excluded(PathOf(f.ip)))
              /\ ~TimeLimitReached(sc, now) /\ ~FilesLimitReached(sc, f)
              /\ ~DepthLimitReached(sc, f))
             => f.out = << ErrorFinding(PathOf(f.ip), "readdir failed") >>

\* entry j of the frame's directory is a subdirectory whose visit gets as far
\* as readdirSync, which fails
UnlistableSubdir(sc, f, j) ==
    LET ip == Append(f.ip, j)
    IN  /\ NodeAt(ip).kind = "dir" /\ NodeAt(ip).listErr
        /\ NodeAt(ip).exists /\ ~NodeAt(ip).statErr
        /\ ~(ver = 2 /\ Excluded(PathOf(ip)))
        /\ f.depth + 1 <= sc.maxDepthUsed

C13_ListingFailureIsolated ==
    /\ \A s \in Slots :
          /\ scans[s].status = "failed" => RootMissing(scans[s])
          /\ \A x \in FindingsOf(scans[s]) : x.path \notin BelowListingFailure
          /\ \A i \in 1..Len(scans[s].stack) :
                LET f == scans[s].stack[i]
                IN  /\ ListingFailureVisit(scans[s], f)
                    /\ \A j \in 1..(f.idx - 1) :
                          UnlistableSubdir(scans[s], f, j) =>
                             FindingsAbout(f, PathOf(Append(f.ip, j)))
                               = << ErrorFinding(PathOf(Append(f.ip, j)),
                                                 "readdir failed") >>
    /\ PathsIn(fileHashes) \cap BelowListingFailure = {}

\* the caller holds the finding of the failed listing and is at a later entry
C13_Witness ==
    \E s \in Slots : \E i \in 1..Len(scans[s].stack) :
        LET f == scans[s].stack[i]
        IN  /\ f.pc = "loop"
            /\ \E j \in 1..(f.idx - 1) :
                  /\ UnlistableSubdir(scans[s], f, j)
                  /\ Len(FindingsAbout(f, PathOf(Append(f.ip, j)))) = 1

(***************************************************************************)
(* C14.  A failure of lstat or of the read stream of one entry stays with  *)
(* that entry: the directory's findings hold exactly one error finding     *)
(* for it, its path is not in the map, no key of the map is the empty      *)
(* string, the scan does not fail, and the loop goes on with the next      *)
(* entry (a visit never stops at a failed entry that is not the last).     *)
(***************************************************************************)
StatFails(ip) == NodeAt(ip).statErr
ReadFails(ip) == ~NodeAt(ip).statErr /\ OpensStream(ver, ip) /\ NodeAt(ip).readErr
EntryFails(ip) == StatFails(ip) \/ ReadFails(ip)

ErrorsAbout(f, path) ==
    SelectSeq(f.out, LAMBDA x : x.path = path /\ x.reason = "error")

\* the paths whose lstat fails; the paths whose read stream fails once opened
StatFailPaths == { PathOf(ip) : ip \in { q \in AllIps : Len(q) > 1 /\ NodeAt(q).statErr } }
ReadFailPaths ==
    { PathOf(ip) : ip \in { q \in AllIps : /\ Len(q) > 1
                                           /\ ~NodeAt(q).statErr
                                           /\ OpensStream(2, q)
                                           /\ NodeAt(q).readErr } }
FailPaths == IF ver = 2 THEN StatFailPaths \cup ReadFailPaths ELSE StatFailPaths

C14_EntryFailureIsolated ==
    /\ \A s \in Slots :
          /\ scans[s].status = "failed" => RootMissing(scans[s])
          /\ \A i \in 1..Len(scans[s].stack) :
                LET f == scans[s].stack[i]
                    last == Len(ItemsToProcess(NodeAt(f.ip).items))
                IN  /\ \A j \in 1..(f.idx - 1) :
                          EntryFails(Append(f.ip, j)) =>
                             ErrorsAbout(f, PathOf(Append(f.ip, j)))
                               = << ErrorFinding(PathOf(Append(f.ip, j)),
                                       IF StatFails(Append(f.ip, j))
                                       THEN "lstat failed" ELSE "read failed") >>
                    /\ (f.pc = "ret" /\ f.idx >= 1 /\ f.idx < last)
                          => ~EntryFails(Append(f.ip, f.idx))
          /\ PathsIn(obs[s].own) \cap FailPaths = {}
    /\ PathsIn(fileHashes) \cap FailPaths = {}
    /\ \A k \in 1..Len(fileHashes) : Truthy(fileHashes[k].key)

\* the loop is past an entry whose lstat failed and one whose read failed
C14_Witness ==
    \E s \in Slots : \E i \in 1..Len(scans[s].stack) :
        LET f == scans[s].stack[i]
        IN  /\ f.pc = "loop"
            /\ \E j \in 1..(f.idx - 1) : StatFails(Append(f.ip, j))
            /\ \E j \in 1..(f.idx - 1) : ReadFails(Append(f.ip, j))

(***************************************************************************)
(* C15.  The budgets are checked again after every entry, also after one   *)
(* whose processing failed: a loop moves on from one entry to the next     *)
(* only if the time limit has not passed and the call's count of processed *)
(* entries is below maxFiles.  In the code both checks are inside the try: *)
(* an entry that throws skips them.                                        *)
(***************************************************************************)
\* in this step a loop of scan s has finished an entry and moved to the next
MovesToNextEntry(s) ==
    LET n == Len(scans'[s].stack)
    IN  /\ Running(s) /\ scans'[s].status = "running"
        /\ n >= 1 /\ n <= Len(scans[s].stack)
        /\ scans[s].stack[n].ip = scans'[s].stack[n].ip
        /\ scans[s].stack[n].idx >= 1
        /\ scans'[s].stack[n].idx = scans[s].stack[n].idx + 1
        /\ scans'[s].stack[n].pc = "loop"

C15_BudgetsRecheckedAfterEveryEntry ==
    [][\A s \in Slots :
          MovesToNextEntry(s) =>
              /\ ~TimeLimitReached(scans'[s], now')
              /\ ~FilesLimitReached(scans'[s], scans'[s].stack[Len(scans'[s].stack)])]_vars

(***************************************************************************)
(* C16.  As stated: every scan that does not end in the error response     *)
(* answers with four blocks: the summary with the number of findings, the  *)
(* findings, the summary with the number of duplicate relations, the       *)
(* relations.  The handler returns one block "No useless files found in"   *)
(* when both lists are empty; the four blocks are the answer otherwise.    *)
(***************************************************************************)
FourBlocks(sc) ==
    /\ Len(sc.response) = 4
    /\ sc.response[1] = Block("Found potentially useless files/directories in",
                              Len(sc.uselessFiles), <<>>, <<>>)
    /\ sc.response[2] = Block("useless lines", 0, sc.uselessFiles, <<>>)
    /\ sc.response[3] = Block("Found duplicate files in", Len(sc.duplicates), <<>>, <<>>)
    /\ sc.response[4] = Block("duplicate lines", 0, <<>>, sc.duplicates)

NothingFound(sc) == sc.uselessFiles = <<>> /\ sc.duplicates = <<>>

C16_AlwaysFourBlocks ==
    \A s \in Slots : scans[s].status = "done" => FourBlocks(scans[s])

C16_FourBlocksUnlessNothingFound ==
    \A s \in Slots :
        scans[s].status = "done" =>
            IF NothingFound(scans[s])
            THEN /\ Len(scans[s].response) = 1
                 /\ scans[s].response[1].kind = "No useless files found in"
            ELSE FourBlocks(scans[s])

\* one scan has answered with the four blocks, another with the single block
C16_Witness ==
    \E s \in Slots : \E t \in Slots :
        /\ scans[s].status = "done" /\ Len(scans[s].response) = 4
        /\ Len(scans[s].uselessFiles) >= 1 /\ Len(scans[s].duplicates) >= 1
        /\ scans[t].status = "done" /\ Len(scans[t].response) = 1

(***************************************************************************)
(* C17.  As stated: a scan of a tree with no empty file, no empty          *)
(* directory and no two allow-listed files with the same bytes returns no  *)
(* finding and no duplicate relation, whatever maxDepth and maxFiles.  The *)
(* limits put findings in the list of such a tree ("max depth reached",    *)
(* "max files limit reached", ...).  What holds, for such a tree in which  *)
(* nothing fails to be listed, statted or read: the finding list holds     *)
(* nothing but limit notices, and the duplicate list of a scan that did    *)
(* not overlap another is empty.                                           *)
(***************************************************************************)
AllowListedFile(ip) ==
    NodeAt(ip).kind = "file" /\ ExtOf(PathOf(ip)) \in COMMON_FILE_EXTENSIONS

\* the roots of the trees the claim is about
NothingUseless ==
    { r \in RootIxs :
        LET ips == IpsBelow(FsRoots[r], << r >>)
        IN  /\ \A ip \in ips :
                  IF NodeAt(ip).kind = "dir" THEN Len(NodeAt(ip).items) > 0
                  ELSE Len(NodeAt(ip).content) > 0
            /\ \A p \in ips : \A q \in ips :
                  (p # q /\ AllowListedFile(p) /\ AllowListedFile(q))
                      => NodeAt(p).content # NodeAt(q).content }

NothingFails ==
    { r \in RootIxs :
        \A ip \in IpsBelow(FsRoots[r], << r >>) :
            /\ NodeAt(ip).exists /\ ~NodeAt(ip).listErr
            /\ ~NodeAt(ip).statErr /\ ~NodeAt(ip).readErr }

NoticeReasons == LimitReasons \cup {"max depth reached", "limited scan"}

C17_CleanTreeNothingFound ==
    \A s \in Slots :
        (scans[s].status = "done" /\ scans[s].dir \in NothingUseless)
            => NothingFound(scans[s])

C17_CleanTreeOnlyLimitNotices ==
    \A s \in Slots :
        (scans[s].status = "done" /\ scans[s].dir \in NothingUseless \cap NothingFails) =>
            /\ \A j \in 1..Len(scans[s].uselessFiles) :
                  scans[s].uselessFiles[j].reason \in NoticeReasons
            /\ ~obs[s].overlap => scans[s].duplicates = <<>>

\* a tree with subdirectory and same-size files was scanned to the end, alone,
\* and nothing was found
C17_Witness ==
    \E s \in Slots :
        /\ scans[s].status = "done" /\ scans[s].dir \in NothingUseless \cap NothingFails
        /\ ~obs[s].overlap
        /\ obs[s].processed >= 5 /\ obs[s].streams >= 2
        /\ NothingFound(scans[s])

(***************************************************************************)
(* C18.  A directory whose path contains node_modules or .git, the root    *)
(* included, is left alone: its visit returns no finding whatever the      *)
(* clock, the count, the depth or its existence; the visit makes no        *)
(* file-system call and changes nothing in the map; no path below it is    *)
(* reported or indexed; the caller holds no finding about it.              *)
(***************************************************************************)
ExcludedPaths == { PathOf(ip) : ip \in { q \in AllIps : Excluded(PathOf(q)) } }

ExcludedVisitsEmpty ==
    /\ \A s \in Slots :
          /\ \A i \in 1..Len(scans[s].stack) :
                LET f == scans[s].stack[i]
                IN  /\ Excluded(PathOf(f.ip)) =>
                          (f.pc \in {"enter", "ret"} /\ f.out = <<>> /\ f.idx = 0)
                    /\ \A j \in 1..(f.idx - 1) :
                          (Excluded(PathOf(Append(f.ip, j)))
                             /\ ~NodeAt(Append(f.ip, j)).statErr)
                              => FindingsAbout(f, PathOf(Append(f.ip, j))) = <<>>
          /\ \A x \in FindingsOf(scans[s]) :
                x.path \in ExcludedPaths => NodeAt(IpOfPath(x.path)).statErr
          /\ PathsIn(obs[s].own) \cap ExcludedPaths = {}
          /\ (Ended(s) /\ Excluded(PathOf(<< scans[s].dir >>))) =>
                /\ scans[s].status = "done" /\ NothingFound(scans[s])
                /\ obs[s].reads = 0 /\ obs[s].processed = 0
    /\ PathsIn(fileHashes) \cap ExcludedPaths = {}

\* the step that runs the checks of an excluded directory
EntersExcluded(s) ==
    /\ Running(s) /\ scans'[s].status = "running"
    /\ Len(scans'[s].stack) = Len(scans[s].stack)
    /\ Top(scans[s]).pc = "enter" /\ Top(scans'[s]).pc # "enter"
    /\ Excluded(PathOf(Top(scans[s]).ip))

C18_ExcludedUntouched ==
    /\ []ExcludedVisitsEmpty
    /\ [][\A s \in Slots :
             EntersExcluded(s) =>
                 /\ obs'[s].reads = obs[s].reads
                 /\ fileHashes' = fileHashes]_vars

\* the scan of a missing root whose name contains .git has answered that
\* nothing was found, and in another scan the visit of node_modules, deeper
\* than maxDepth, has returned
C18_Witness ==
    \E s \in Slots : \E t \in Slots :
        /\ scans[t].status = "done"
        /\ Excluded(PathOf(<< scans[t].dir >>))
        /\ ~NodeAt(<< scans[t].dir >>).exists
        /\ Len(scans[t].response) = 1
        /\ scans[t].response[1].kind = "No useless files found in"
        /\ Running(s)
        /\ Len(scans[s].stack) >= 2
        /\ Excluded(PathOf(Top(scans[s]).ip))
        /\ Top(scans[s]).pc = "ret"
        /\ DepthLimitReached(scans[s], Top(scans[s]))

(***************************************************************************)
(* C19.  Every scan ends with a response: a handler call in flight         *)
(* eventually returns.  The recursion is never deeper than the effective   *)
(* maxDepth + 1, which is at most 11 (12 calls on the stack), and the loop *)
(* of a visit never goes past the 100th entry.                             *)
(***************************************************************************)
WalkBounded ==
    \A s \in Slots : \A i \in 1..Len(scans[s].stack) :
        LET f == scans[s].stack[i]
        IN  /\ f.depth = i - 1
            /\ f.depth <= scans[s].maxDepthUsed + 1
            /\ f.depth <= MAX_DEPTH + 1
            /\ f.idx <= MAX_ITEMS_PER_DIR
            /\ f.idx <= Len(NodeAt(f.ip).items)

C19_EveryScanEnds ==
    /\ []WalkBounded
    /\ \A s \in Slots : Running(s) ~> Ended(s)

\* the walk is MAX_DEPTH + 1 deep and the deepest call has returned
C19_Witness ==
    \E s \in Slots :
        /\ Running(s)
        /\ Len(scans[s].stack) = MAX_DEPTH + 2
        /\ Top(scans[s]).depth = MAX_DEPTH + 1
        /\ Top(scans[s]).pc = "ret"

(***************************************************************************)
(* C20.  The finding list only grows at its end and is in pre-order: the   *)
(* findings of a call are in the order of the entries they are about, the  *)
(* findings of a subdirectory's call go into the caller's list as one      *)
(* block at the position of that entry, and no step removes or moves a     *)
(* finding that is already in a list.                                      *)
(***************************************************************************)
IsPrefix(a, b) == Len(a) <= Len(b) /\ SubSeq(b, 1, Len(a)) = a

AllPaths == { PathOf(ip) : ip \in AllIps }
IpIndex == [p \in AllPaths |-> CHOOSE ip \in AllIps : PathOf(ip) = p]

\* where a finding belongs in the walk: at the entry it names; the notice
\* that ends a loop belongs after every entry of its directory
PlaceOf(x) ==
    IF x.reason \in {"execution time limit reached during processing",
                     "max files limit reached during processing"}
    THEN Append(IpIndex[x.path], MAX_ITEMS_PER_DIR + 1)
    ELSE IpIndex[x.path]

\* a comes before b in pre-order, or is b
NotAfter(a, b) ==
    \/ IsPrefix(a, b)
    \/ \E k \in 1..Min(Len(a), Len(b)) :
          /\ a[k] < b[k]
          /\ \A m \in 1..(k - 1) : a[m] = b[m]

InPreOrder(findings) ==
    \A i \in 1..(Len(findings) - 1) :
        NotAfter(PlaceOf(findings[i]), PlaceOf(findings[i + 1]))

FindingsInPreOrder ==
    \A s \in Slots :
        /\ InPreOrder(scans[s].uselessFiles)
        /\ \A i \in 1..Len(scans[s].stack) :
              /\ InPreOrder(scans[s].stack[i].out)
              /\ \A j \in 1..Len(scans[s].stack[i].out) :
                    IsPrefix(scans[s].stack[i].ip, PlaceOf(scans[s].stack[i].out[j]))

\* what a step may do to the lists of scan s
ListsOnlyGrow(s) ==
    LET old == scans[s].stack
        new == scans'[s].stack
    IN  Running(s) =>
          /\ \A i \in 1..Min(Len(old), Len(new)) : IsPrefix(old[i].out, new[i].out)
          /\ (Len(new) = Len(old) - 1 /\ Len(new) >= 1 /\ old[Len(old)].pc = "ret")
                => IsPrefix(old[Len(new)].out \o old[Len(old)].out, new[Len(new)].out)
          /\ scans'[s].status = "done" => scans'[s].uselessFiles = old[1].out

C20_AppendOnlyPreOrder ==
    /\ []FindingsInPreOrder
    /\ [][\A s \in Slots : ListsOnlyGrow(s)]_vars

\* a list holds the finding of a subdirectory's call, findings of later
\* entries, the finding of another subdirectory's call, and the loop goes on
C20_Witness ==
    \E s \in Slots : \E i \in 1..Len(scans[s].stack) :
        LET f == scans[s].stack[i]
        IN  /\ f.pc = "loop"
            /\ \E a \in 1..Len(f.out) : \E b \in 1..Len(f.out) : \E c \in 1..Len(f.out) :
                  /\ a < b /\ b < c
                  /\ f.out[a].msg = "readdir failed"
                  /\ f.out[b].msg = "lstat failed"
                  /\ f.out[c].reason = "empty directory"

(***************************************************************************)
(* C21.  In a scan that no other scan overlaps: a path is inserted into    *)
(* the map at most once, and only the path of a regular file with an       *)
(* allow-listed extension, under a key that is not the empty string; no    *)
(* relation names the same path twice; the filter of findDuplicateFiles    *)
(* removes no relation; the number of relations is less than the number    *)
(* of processed entries.  As stated the last part fails for a scan that    *)
(* processes nothing (0 < 0); it holds as "at most, and less once an       *)
(* entry has been processed".                                              *)
(***************************************************************************)
InsertedOnce(m) ==
    \A k \in 1..Len(m) : \A l \in 1..Len(m) :
        \A i \in 1..Len(m[k].paths) : \A j \in 1..Len(m[l].paths) :
            m[k].paths[i] = m[l].paths[j] => (k = l /\ i = j)

InsertionsAllowListed(m) ==
    /\ \A k \in 1..Len(m) : Truthy(m[k].key)
    /\ \A p \in PathsIn(m) :
          /\ ExtOf(p) \in COMMON_FILE_EXTENSIONS
          /\ NodeAt(IpIndex[p]).kind = "file"

\* what the insertions and the derived list of a scan on its own satisfy,
\* whatever the number of processed entries
IndexOfLoneScan(s) ==
    /\ InsertedOnce(obs[s].own)
    /\ InsertionsAllowListed(obs[s].own)
    /\ scans[s].status = "done" =>
          /\ \A i \in 1..Len(scans[s].duplicates) :
                scans[s].duplicates[i].dupe # scans[s].duplicates[i].original
          /\ Len(scans[s].duplicates)
                = RelationsBefore(obs[s].own, Len(obs[s].own) + 1)

LoneScan(s) ==
    scans[s].status \in {"running", "done", "failed"} /\ ~obs[s].overlap

C21_FewerDuplicatesThanProcessed ==
    \A s \in Slots :
        LoneScan(s) =>
            /\ IndexOfLoneScan(s)
            /\ scans[s].status = "done"
                  => Len(scans[s].duplicates) < obs[s].processed

C21_IndexInsertions ==
    \A s \in Slots :
        LoneScan(s) =>
            /\ IndexOfLoneScan(s)
            /\ scans[s].status = "done" =>
                  /\ Len(scans[s].duplicates) <= obs[s].processed
                  /\ obs[s].processed >= 1
                        => Len(scans[s].duplicates) < obs[s].processed

\* a scan on its own has ended with a group of three paths, one of them
\* with an upper-case extension
C21_Witness ==
    \E s \in Slots :
        /\ scans[s].status = "done" /\ ~obs[s].overlap
        /\ Len(scans[s].duplicates) >= 2
        /\ \E i \in 1..Len(scans[s].duplicates) :
              LET p == scans[s].duplicates[i].dupe
              IN  p[Len(p)].ext # ExtOf(p)

====
